---- MODULE Spec2Model ----
(***************************************************************************)
(* Model of the fuzzy supplier evaluator (src/fuzzy_supplier_evaluator.py, *)
(* class FuzzyModel) of the NPI sourcing simulation.                       *)
(*                                                                         *)
(* Numbers.  The program computes with floats; the model computes with     *)
(* integers in fixed point:                                                *)
(*   - a membership degree d in [0,1] is the integer d * One;              *)
(*   - a point of a universe is its grid index (x / step);                 *)
(*   - delivery-time statistics (mean, standard deviation, breakpoints)    *)
(*     are kept in 1/Prec of a day, rounded down;                          *)
(*   - spend statistics are kept in grid units of the spend universe       *)
(*     (0.01 of the scaled spend, i.e. one unit of "FY Spend"), rounded    *)
(*     down;                                                               *)
(*   - NaN (pandas' mean/std/max of too few rows) is the value NaN.        *)
(* The third-party calls (skfuzzy trapmf, trimf, interp_membership,        *)
(* defuzz; math.ceil/floor; logging.exception) are modelled by what the    *)
(* library does at the call site that uses them.                           *)
(***************************************************************************)
EXTENDS Integers, Sequences, FiniteSets, TLC

\* ------------------------------------------------------------ fixed point

\* One = the membership degree 1.0.
One == 12 * 25

\* Delivery-time statistics are kept in 1/Prec of a day.
Prec == 10 * 10

\* pandas/numpy NaN.
NaN == 0 - 999999

IsNaN(x) == x = NaN

Min2(a, b) == IF a <= b THEN a ELSE b

Max2(a, b) == IF a >= b THEN a ELSE b

\* Python's builtin max(a, b) on floats: the first argument is kept unless the
\* second compares greater; every comparison with NaN is False.
PyMax(a, b) ==
  IF IsNaN(a) THEN NaN
  ELSE IF IsNaN(b) THEN a
  ELSE Max2(a, b)

\* Python's builtin min(a, b) on floats, same rule.
PyMin(a, b) ==
  IF IsNaN(a) THEN NaN
  ELSE IF IsNaN(b) THEN a
  ELSE Min2(a, b)

\* Arithmetic that propagates NaN.
NAdd(a, b) == IF IsNaN(a) \/ IsNaN(b) THEN NaN ELSE a + b

NSub(a, b) == IF IsNaN(a) \/ IsNaN(b) THEN NaN ELSE a - b

NMul(k, a) == IF IsNaN(a) THEN NaN ELSE k * a

\* a <= b on floats: False when either side is NaN.
NLe(a, b) == ~IsNaN(a) /\ ~IsNaN(b) /\ a <= b

CeilDiv(a, b) == 0 - ((0 - a) \div b)

\* ceil(a / b) and floor(a / b) of a float that may be NaN.
NCeil(a, b) == IF IsNaN(a) THEN NaN ELSE CeilDiv(a, b)

NFloor(a, b) == IF IsNaN(a) THEN NaN ELSE a \div b

RECURSIVE SqrtSearch(_, _, _)
SqrtSearch(v, lo, hi) ==
  IF hi - lo <= 1 THEN lo
  ELSE LET mid == (lo + hi) \div 2
       IN IF mid * mid <= v THEN SqrtSearch(v, mid, hi) ELSE SqrtSearch(v, lo, mid)

\* Integer square root, rounded down (v >= 0, v < 2^30).
ISqrt(v) == SqrtSearch(v, 0, 32768)

RECURSIVE SeqSum(_)
SeqSum(s) == IF s = <<>> THEN 0 ELSE Head(s) + SeqSum(Tail(s))

RECURSIVE SeqSumSq(_)
SeqSumSq(s) == IF s = <<>> THEN 0 ELSE Head(s) * Head(s) + SeqSumSq(Tail(s))

RECURSIVE SeqMax(_)
SeqMax(s) ==
  IF s = <<>> THEN NaN
  ELSE IF Len(s) = 1 THEN Head(s)
  ELSE Max2(Head(s), SeqMax(Tail(s)))

RECURSIVE SeqMin(_)
SeqMin(s) ==
  IF s = <<>> THEN NaN
  ELSE IF Len(s) = 1 THEN Head(s)
  ELSE Min2(Head(s), SeqMin(Tail(s)))

\* pandas Series.mean() in 1/scale units: NaN for an empty series.
Mean(s, scale) ==
  IF s = <<>> THEN NaN ELSE (scale * SeqSum(s)) \div Len(s)

\* pandas Series.std() (sample standard deviation, ddof = 1) in 1/scale units:
\* NaN for fewer than two values.
Std(s, scale) ==
  IF Len(s) < 2 THEN NaN
  ELSE LET n == Len(s)
           num == n * SeqSumSq(s) - SeqSum(s) * SeqSum(s)
       IN ISqrt((scale * scale * num) \div (n * (n - 1)))

\* ------------------------------------------------- membership functions

\* skfuzzy.trimf(x, [a, b, c]) at one point x: the asserted precondition.
trimf_ok(a, b, c) == NLe(a, b) /\ NLe(b, c)

\* skfuzzy.trimf(x, [a, b, c]) at one point x.
trimf(x, a, b, c) ==
  IF x = b THEN One
  ELSE IF a # b /\ a < x /\ x < b THEN (One * (x - a)) \div (b - a)
  ELSE IF b # c /\ b < x /\ x < c THEN (One * (c - x)) \div (c - b)
  ELSE 0

\* skfuzzy.trapmf(x, [a, b, c, d]): the asserted precondition.
trapmf_ok(a, b, c, d) == NLe(a, b) /\ NLe(b, c) /\ NLe(c, d)

\* skfuzzy.trapmf(x, [a, b, c, d]) at one point x: ones, then x <= b is
\* trimf [a, b, b], then x >= c is trimf [c, c, d], then zero outside [a, d].
trapmf(x, a, b, c, d) ==
  IF x < a \/ x > d THEN 0
  ELSE IF x >= c THEN trimf(x, c, c, d)
  ELSE IF x <= b THEN trimf(x, a, b, b)
  ELSE One

\* skfuzzy.interp_membership(x, xmf, xx) with the default zero_outside_x = True:
\* numpy.interp of the sampled curve, 0 outside the universe.  The universe is
\* the grid 0..last, xmf[k] is the sample at grid index k, the crisp value is
\* num/den grid units (den > 0).
interp_membership(xmf, last, num, den) ==
  IF IsNaN(num) THEN NaN
  ELSE IF num < 0 \/ num > last * den THEN 0
  ELSE LET lo == num \div den
           rem == num - lo * den
       IN IF rem = 0 THEN xmf[lo]
          ELSE xmf[lo] + ((xmf[lo + 1] - xmf[lo]) * rem) \div den

\* ---------------------------------------------------------- universes

\* self.__var_due_time = np.arange(0, 721, 1): grid 0..720 days.
DueTimeLast == 720

\* self.__var_punctuality = np.arange(0, 2, 0.01): grid 0..199 of 0.01.
PunctualityLast == 199

\* self.__var_supplier = np.arange(0, 11, 0.01): grid 0..1099 of 0.01.
SupplierLast == 1099

\* Grid points per unit of the 0.01-step universes (spend, punctuality, supplier).
PerUnit == 100

\* self.__var_delivery_time = np.arange(0, max_delivery_time + 1, 1).
DeliveryLast(bank) == bank.max_delivery_time

\* self.__var_spend = np.arange(0, max_spend + 1, 0.01).
SpendLast(bank) == (bank.max_spend + 1) * PerUnit - 1

\* ------------------------------------------------- linguistic variables

due_time_low(k) == trapmf(k, 0, 0, 30, 60)

\* A Medium due time that ends at 80 days: between 60 and 90 days the three
\* shapes no longer add up to 1.
due_time_medium_to_80(k) == trimf(k, 30, 60, 80)

due_time_medium(k) == trimf(k, 30, 60, 90)

due_time_high(k) == trapmf(k, 60, 90, 720, 720)

\* Breakpoints of the delivery-time variable, in 1/Prec of a day.
delivery_time_low_abcd(bank) ==
  << 0, 0, NSub(bank.avg_delivery_time, bank.std_delivery_time), bank.avg_delivery_time >>

delivery_time_medium_abc(bank) ==
  << NSub(bank.avg_delivery_time, bank.std_delivery_time), bank.avg_delivery_time,
     NAdd(bank.avg_delivery_time, bank.std_delivery_time) >>

delivery_time_high_abcd(bank) ==
  << bank.avg_delivery_time, NAdd(bank.avg_delivery_time, bank.std_delivery_time),
     NMul(Prec, bank.max_delivery_time), NMul(Prec, bank.max_delivery_time) >>

delivery_time_low(bank, k) ==
  LET p == delivery_time_low_abcd(bank) IN trapmf(Prec * k, p[1], p[2], p[3], p[4])

delivery_time_medium(bank, k) ==
  LET p == delivery_time_medium_abc(bank) IN trimf(Prec * k, p[1], p[2], p[3])

delivery_time_high(bank, k) ==
  LET p == delivery_time_high_abcd(bank) IN trapmf(Prec * k, p[1], p[2], p[3], p[4])

punctuality_low(k) == trapmf(k, 0, 0, 25, 50)

punctuality_medium(k) == trimf(k, 25, 50, 75)

punctuality_high(k) == trapmf(k, 50, 75, 100, 100)

\* Breakpoints of the spend variable, in grid units (0.01).
spend_low_abcd(bank) ==
  << 0, NMul(PerUnit, bank.min_spend),
     PyMax(NMul(PerUnit, bank.min_spend), NSub(bank.avg_spend, bank.std_spend)),
     PyMax(NSub(bank.avg_spend, bank.std_spend), bank.avg_spend) >>

spend_medium_abc(bank) ==
  << NSub(bank.avg_spend, bank.std_spend), bank.avg_spend,
     NAdd(bank.avg_spend, bank.std_spend) >>

spend_high_abcd(bank) ==
  << bank.avg_spend, NAdd(bank.avg_spend, bank.std_spend),
     NMul(PerUnit, bank.max_spend), NMul(PerUnit, bank.max_spend) >>

spend_low(bank, k) ==
  LET p == spend_low_abcd(bank) IN trapmf(k, p[1], p[2], p[3], p[4])

spend_medium(bank, k) ==
  LET p == spend_medium_abc(bank) IN trimf(k, p[1], p[2], p[3])

spend_high(bank, k) ==
  LET p == spend_high_abcd(bank) IN trapmf(k, p[1], p[2], p[3], p[4])

\* Output variable, time priority (sampled once over the whole grid).
supplier_wait == [k \in 0..SupplierLast |-> trapmf(k, 0, 0, 500, 750)]

supplier_implement == [k \in 0..SupplierLast |-> trapmf(k, 250, 500, 1000, 1000)]

\* Output variable, spend priority.
supplier_low == [k \in 0..SupplierLast |-> trapmf(k, 0, 0, 250, 500)]

supplier_medium == [k \in 0..SupplierLast |-> trimf(k, 250, 500, 750)]

supplier_high == [k \in 0..SupplierLast |-> trapmf(k, 500, 750, 1000, 1000)]

\* ------------------------------------------------------------ rule bases

SetMax(S) == CHOOSE x \in S : \A y \in S : x >= y

SetMin(S) == CHOOSE x \in S : \A y \in S : x <= y

\* Levels of one linguistic variable at a crisp value.
Levels(l, m, h) == [low |-> l, medium |-> m, high |-> h]

due_time_level(crisp_due_time) ==
  Levels(interp_membership([k \in 0..DueTimeLast |-> due_time_low(k)], DueTimeLast, crisp_due_time, 1),
         interp_membership([k \in 0..DueTimeLast |-> due_time_medium(k)], DueTimeLast, crisp_due_time, 1),
         interp_membership([k \in 0..DueTimeLast |-> due_time_high(k)], DueTimeLast, crisp_due_time, 1))

\* crisp_spend is a multiple of 0.01, given as its grid index.
spend_level(bank, crisp_spend) ==
  Levels(interp_membership([k \in 0..SpendLast(bank) |-> spend_low(bank, k)], SpendLast(bank), crisp_spend, 1),
         interp_membership([k \in 0..SpendLast(bank) |-> spend_medium(bank, k)], SpendLast(bank), crisp_spend, 1),
         interp_membership([k \in 0..SpendLast(bank) |-> spend_high(bank, k)], SpendLast(bank), crisp_spend, 1))

\* crisp_punctuality = num / den (rows counted), on the 0.01 grid.
punctuality_level(num, den) ==
  Levels(interp_membership([k \in 0..PunctualityLast |-> punctuality_low(k)], PunctualityLast, PerUnit * num, den),
         interp_membership([k \in 0..PunctualityLast |-> punctuality_medium(k)], PunctualityLast, PerUnit * num, den),
         interp_membership([k \in 0..PunctualityLast |-> punctuality_high(k)], PunctualityLast, PerUnit * num, den))

\* crisp_delivery_time = num / den days.
delivery_time_level(bank, num, den) ==
  Levels(interp_membership([k \in 0..DeliveryLast(bank) |-> delivery_time_low(bank, k)],
                           DeliveryLast(bank), num, den),
         interp_membership([k \in 0..DeliveryLast(bank) |-> delivery_time_medium(bank, k)],
                           DeliveryLast(bank), num, den),
         interp_membership([k \in 0..DeliveryLast(bank) |-> delivery_time_high(bank, k)],
                           DeliveryLast(bank), num, den))

\* Time priority, new supplier: rule_1 .. rule_6.
time_rules_new(due, del, sp) ==
  << del.high,
     SetMin({due.low, Max2(del.low, del.medium), sp.high}),
     SetMin({Max2(due.low, due.medium), Max2(del.low, del.medium), Max2(sp.low, sp.medium)}),
     SetMin({due.medium, sp.high}),
     SetMin({due.high, Max2(del.low, del.medium), sp.low}),
     SetMin({due.high, Max2(del.medium, del.high), Max2(sp.medium, sp.high)}) >>

\* time_rules_existing with rule 8 asking for a Low due time: C12 must tell it
\* apart.
time_rules_existing_rule_8_due_low(due, del, pun, sp) ==
  << SetMin({due.low, del.low, pun.low}),
     SetMin({due.low, del.low, pun.medium, sp.high}),
     SetMin({due.low, Max2(del.medium, del.high), Max2(pun.low, pun.medium)}),
     SetMin({due.low, del.medium, pun.high}),
     SetMin({due.low, del.low, pun.medium, Max2(sp.low, sp.medium)}),
     SetMin({due.low, del.low, pun.high}),
     SetMin({due.medium, Max2(del.low, del.medium), pun.low}),
     SetMin({due.low, Max2(del.low, del.medium), Max2(pun.medium, pun.high),
             Max2(sp.low, sp.medium)}),
     SetMin({due.medium, Max2(del.low, del.medium), Max2(pun.medium, pun.high), sp.high}),
     SetMin({due.medium, del.high}),
     SetMin({due.high, del.low, sp.low}),
     SetMin({due.high, del.low, pun.high, sp.medium}),
     SetMin({due.high, del.low, Max2(pun.low, pun.medium), Max2(sp.medium, sp.high)}),
     SetMin({due.high, del.low, pun.high, sp.high}),
     SetMin({due.high, Max2(del.medium, del.high), pun.low, sp.medium}),
     SetMin({due.high, Max2(del.medium, del.high), sp.high}),
     SetMin({due.high, Max2(del.medium, del.high), pun.low, sp.low}),
     SetMin({due.high, Max2(del.medium, del.high), Max2(pun.medium, pun.high),
             Max2(sp.low, sp.medium)}) >>

\* Time priority, existing supplier: rule_1 .. rule_18.
time_rules_existing(due, del, pun, sp) ==
  << SetMin({due.low, del.low, pun.low}),
     SetMin({due.low, del.low, pun.medium, sp.high}),
     SetMin({due.low, Max2(del.medium, del.high), Max2(pun.low, pun.medium)}),
     SetMin({due.low, del.medium, pun.high}),
     SetMin({due.low, del.low, pun.medium, Max2(sp.low, sp.medium)}),
     SetMin({due.low, del.low, pun.high}),
     SetMin({due.medium, Max2(del.low, del.medium), pun.low}),
     SetMin({due.medium, Max2(del.low, del.medium), Max2(pun.medium, pun.high),
             Max2(sp.low, sp.medium)}),
     SetMin({due.medium, Max2(del.low, del.medium), Max2(pun.medium, pun.high), sp.high}),
     SetMin({due.medium, del.high}),
     SetMin({due.high, del.low, sp.low}),
     SetMin({due.high, del.low, pun.high, sp.medium}),
     SetMin({due.high, del.low, Max2(pun.low, pun.medium), Max2(sp.medium, sp.high)}),
     SetMin({due.high, del.low, pun.high, sp.high}),
     SetMin({due.high, Max2(del.medium, del.high), pun.low, sp.medium}),
     SetMin({due.high, Max2(del.medium, del.high), sp.high}),
     SetMin({due.high, Max2(del.medium, del.high), pun.low, sp.low}),
     SetMin({due.high, Max2(del.medium, del.high), Max2(pun.medium, pun.high),
             Max2(sp.low, sp.medium)}) >>

\* wait_strength with rule 13 left out of the Wait rules: C7 must tell it apart.
wait_strength_without_13(new_supplier, r) ==
  IF new_supplier THEN SetMax({r[1], r[2], r[4], r[6]})
  ELSE SetMax({r[1], r[2], r[3], r[7], r[9], r[10], r[14], r[15], r[16]})

\* wait_strength / implement_strength of either time-priority rule base.
wait_strength(new_supplier, r) ==
  IF new_supplier THEN SetMax({r[1], r[2], r[4], r[6]})
  ELSE SetMax({r[1], r[2], r[3], r[7], r[9], r[10], r[13], r[14], r[15], r[16]})

\* implement_strength with rules 8 and 18 left out of the Implement rules: C11
\* must tell it apart.
implement_strength_without_8_18(new_supplier, r) ==
  IF new_supplier THEN SetMax({r[3], r[5]})
  ELSE SetMax({r[4], r[5], r[6], r[11], r[12], r[17]})

implement_strength(new_supplier, r) ==
  IF new_supplier THEN SetMax({r[3], r[5]})
  ELSE SetMax({r[4], r[5], r[6], r[8], r[11], r[12], r[17], r[18]})

\* Spend priority, new supplier: rule_1 .. rule_4.
spend_rules_new(price, del) ==
  << PyMin(Max2(price.low, price.medium), del.low),
     PyMin(Max2(price.low, price.medium), del.medium),
     PyMin(Max2(price.low, price.medium), del.high),
     price.high >>

\* Spend priority, existing supplier: rule_1 .. rule_11.
spend_rules_existing(price, del, pun) ==
  << SetMin({del.low, Max2(price.low, price.medium), pun.low}),
     SetMin({del.low, Max2(price.low, price.medium), Max2(pun.medium, pun.high)}),
     SetMin({del.low, price.high, pun.low}),
     SetMin({del.low, price.high, Max2(pun.medium, pun.high)}),
     SetMin({del.medium, price.low, pun.low}),
     SetMin({Max2(del.medium, del.high), Max2(price.low, price.medium), pun.medium}),
     SetMin({Max2(del.medium, del.high), Max2(price.low, price.medium), pun.high}),
     SetMin({del.medium, Max2(price.medium, price.high), pun.low}),
     SetMin({Max2(del.medium, del.high), price.high, pun.medium}),
     SetMin({Max2(del.medium, del.high), price.high, pun.high}),
     SetMin({del.high, pun.low}) >>

\* low_strength with rule 4 left out for a new supplier: C13 must tell it apart.
low_strength_without_4(new_supplier, r) ==
  IF new_supplier THEN r[3] ELSE SetMax({r[3], r[8], r[9], r[11]})

low_strength(new_supplier, r) ==
  IF new_supplier THEN Max2(r[3], r[4]) ELSE SetMax({r[3], r[8], r[9], r[11]})

\* medium_strength with rule 5 left out for an existing supplier: the case
\* delivery Medium, price Low, punctuality Low is then covered by no strength.
medium_strength_without_5(new_supplier, r) ==
  IF new_supplier THEN r[2] ELSE SetMax({r[1], r[4], r[6], r[10]})

medium_strength(new_supplier, r) ==
  IF new_supplier THEN r[2] ELSE SetMax({r[1], r[4], r[5], r[6], r[10]})

high_strength(new_supplier, r) ==
  IF new_supplier THEN r[1] ELSE SetMax({r[2], r[7]})

\* ------------------------------------------- aggregation, defuzzification

\* np.fmin(strength, mf): the output curve clipped by the firing strength.
Activation(strength, mf) == [k \in DOMAIN mf |-> Min2(strength, mf[k])]

\* The largest sample of an output curve.
Peak == [name \in {"wait", "implement", "low", "medium", "high"} |->
          LET mf == CASE name = "wait" -> supplier_wait
                      [] name = "implement" -> supplier_implement
                      [] name = "low" -> supplier_low
                      [] name = "medium" -> supplier_medium
                      [] OTHER -> supplier_high
          IN SetMax({mf[k] : k \in DOMAIN mf})]

\* np.fmin(strength, mf).max(): min is monotone, so the largest sample of the
\* clipped curve is the strength clipped by the largest sample of the curve.
ActivationMax(strength, name) == Min2(strength, Peak[name])

\* skfuzzy centroid over the segments lo..hi-1 of the sampled curve y: the pair
\* << 6 * sum(moment * area), 2 * sum(area) >> in grid units.  The library's four
\* cases (rectangle, the two triangles, trapezoid) are one formula:
\* moment * area = dx^2 (2 y2 + y1) / 6 + x1 dx (y1 + y2) / 2, area = dx (y1 + y2) / 2.
RECURSIVE CentroidSums(_, _, _)
CentroidSums(y, lo, hi) ==
  IF hi - lo = 1 THEN
    << (2 * y[hi] + y[lo]) + 3 * lo * (y[lo] + y[hi]), y[lo] + y[hi] >>
  ELSE LET mid == (lo + hi) \div 2
           l == CentroidSums(y, lo, mid)
           r == CentroidSums(y, mid, hi)
       IN << l[1] + r[1], l[2] + r[2] >>

\* skfuzzy.defuzz(x, mfx, "centroid") refuses a curve whose samples sum to zero.
defuzz_raises(y) == \A k \in DOMAIN y : y[k] = 0

\* skfuzzy.defuzz(x, mfx, "centroid") in grid units (0.01), rounded down.
defuzz(y) ==
  LET s == CentroidSums(y, 0, SupplierLast) IN s[1] \div (3 * s[2])

\* ------------------------------------------------------- decision record

RuleKey(i) == "Rule " \o ToString(i)

\* stats[f"Rule {n}"] for n in 1..total: the firing strengths, then np.nan.
RuleEntries(rules, total) ==
  [key \in {RuleKey(i) : i \in 1..total} |->
     LET i == CHOOSE j \in 1..total : RuleKey(j) = key
     IN IF i <= Len(rules) THEN rules[i] ELSE NaN]

\* The result of a call: the exception it raised ("None" when it returned), the
\* source line that raised it, and the value returned.
Returned(value) == [raised |-> "None", line |-> 0, value |-> value]

Raised(exception, line) == [raised |-> exception, line |-> line, value |-> <<>>]

\* time_action with ties going to "Implement": C8 must tell it apart.
time_action_ties_implement(wait_max, implement_max) ==
  IF implement_max >= wait_max THEN "Implement" ELSE "Wait"

\* linguistic_tag with the categories tried in the order High, Regular, Low:
\* C9 must tell it apart.
linguistic_tag_high_first(low_max, medium_max, high_max) ==
  LET max_activation == SetMax({low_max, medium_max, high_max})
  IN IF max_activation = high_max THEN "High"
     ELSE IF max_activation = medium_max THEN "Regular"
     ELSE "Low"

\* Lines 355-358: the action from the largest samples of the two clipped curves.
time_action(wait_max, implement_max) ==
  IF implement_max > wait_max THEN "Implement" ELSE "Wait"

\* Lines 481-492: the tag from the largest samples of the three clipped curves.
linguistic_tag(low_max, medium_max, high_max) ==
  LET max_activation == SetMax({low_max, medium_max, high_max})
  IN IF max_activation = low_max THEN "Low"
     ELSE IF max_activation = medium_max THEN "Regular"
     ELSE "High"

\* Lines 268-383 of _evaluate_supplier_time_priority: rule application,
\* aggregation, defuzzification, action and the stats dictionary, from the
\* membership levels.
time_priority_decision(supplier_id, new_supplier, due, del, pun, sp) ==
  LET rules == IF new_supplier THEN time_rules_new(due, del, sp)
               ELSE time_rules_existing(due, del, pun, sp)
      wait == wait_strength(new_supplier, rules)
      implement == implement_strength(new_supplier, rules)
      aggregated == [k \in 0..SupplierLast |->
                       Max2(Activation(wait, supplier_wait)[k],
                            Activation(implement, supplier_implement)[k])]
      wait_max == ActivationMax(wait, "wait")
      implement_max == ActivationMax(implement, "implement")
      action == time_action(wait_max, implement_max)
  IN IF defuzz_raises(aggregated) THEN Raised("AssertionError", 352)
     ELSE Returned(("Supplier ID" :> supplier_id) @@ ("New supplier" :> new_supplier)
                   @@ ("Score" :> defuzz(aggregated)) @@ ("Wait" :> wait_max)
                   @@ ("Implement" :> implement_max) @@ ("Action" :> action)
                   @@ RuleEntries(rules, 18))

\* Lines 420-537 of _evaluate_supplier_spend_priority, from the membership levels.
spend_priority_decision(supplier_id, new_supplier, price, del, pun) ==
  LET rules == IF new_supplier THEN spend_rules_new(price, del)
               ELSE spend_rules_existing(price, del, pun)
      low == low_strength(new_supplier, rules)
      medium == medium_strength(new_supplier, rules)
      high == high_strength(new_supplier, rules)
      aggregated == [k \in 0..SupplierLast |->
                       SetMax({Activation(low, supplier_low)[k],
                               Activation(medium, supplier_medium)[k],
                               Activation(high, supplier_high)[k]})]
      low_max == ActivationMax(low, "low")
      medium_max == ActivationMax(medium, "medium")
      high_max == ActivationMax(high, "high")
      tag == linguistic_tag(low_max, medium_max, high_max)
  IN IF defuzz_raises(aggregated) THEN Raised("AssertionError", 478)
     ELSE Returned(("Supplier ID" :> supplier_id) @@ ("New supplier" :> new_supplier)
                   @@ ("Score" :> defuzz(aggregated)) @@ ("Low" :> low_max)
                   @@ ("Regular" :> medium_max) @@ ("High" :> high_max)
                   @@ ("Classification" :> tag)
                   @@ RuleEntries(rules, 11))

\* ------------------------------------------------------- the data frame

\* The item master is a sequence of rows; a row holds the columns the evaluator
\* reads: "Supplier ID", "ECN", "Project", "Part number", "Awarded", "OTD",
\* "Delivery time", "Lead time", "FY Spend", "Quotation date" (a day number).
Rows(df, mask) ==
  LET kept[i \in 0..Len(df)] ==
        IF i = 0 THEN <<>>
        ELSE IF mask[i] THEN Append(kept[i - 1], df[i]) ELSE kept[i - 1]
  IN kept[Len(df)]

Column(rows, name) == [i \in 1..Len(rows) |-> rows[i][name]]

ColumnSet(rows, name) == {rows[i][name] : i \in 1..Len(rows)}

\* df[["Supplier ID", "FY Spend"]].groupby("Supplier ID").sum()["FY Spend"]
GroupSpend(rows) ==
  [s \in ColumnSet(rows, "supplier_id") |->
     SeqSum(Column(Rows(rows, [i \in DOMAIN rows |-> rows[i].supplier_id = s]), "fy_spend"))]

RECURSIVE SeriesValues(_, _)
SeriesValues(series, keys) ==
  IF keys = {} THEN <<>>
  ELSE LET k == SetMin(keys)
       IN << series[k] >> \o SeriesValues(series, keys \ {k})

\* The values of a series (a function of its index) as a sequence.
Values(series) == SeriesValues(series, DOMAIN series)

\* quotation_ecn.project.important_dates["SOP"], as a day number.
SopDay == 1000

\* ----------------------------------------------- FuzzyModel.__init__ steps

\* Lines 51-64: delivery-time statistics and the per-supplier spend series.
delivery_times(df) == Column(Rows(df, [i \in DOMAIN df |-> df[i].awarded]), "delivery_time")

spend_df_of(df, supplier_id, priority) ==
  IF priority = "time" THEN
    LET quoted_pn == ColumnSet(Rows(df, [i \in DOMAIN df |-> df[i].supplier_id = supplier_id]), "part_number")
    IN GroupSpend(Rows(df, [i \in DOMAIN df |-> df[i].part_number \in quoted_pn]))
  ELSE GroupSpend(df)

\* The argument of ceil() at lines 57-58 (time) and 64 (spend), in 1/Prec of a day.
max_delivery_time_arg(df, priority) ==
  LET dts == delivery_times(df)
  IN IF priority = "time"
     THEN PyMax(NAdd(Mean(dts, Prec), NMul(3, Std(dts, Prec))), NMul(Prec, SeqMax(dts)))
     ELSE NMul(Prec, SeqMax(dts))

\* The argument of ceil() at lines 76, 78 and 80, in grid units (0.01).
max_spend_arg(spend_values, priority, massive_simulation) ==
  IF priority = "time"
  THEN NAdd(Mean(spend_values, 1),
            NMul(IF massive_simulation THEN 10 ELSE 3, Std(spend_values, 1)))
  ELSE SeqMax(spend_values)

\* Lines 51-89: the numbers the universes and membership functions are built from.
variable_bank(df, supplier_id, priority, massive_simulation) ==
  LET dts == delivery_times(df)
      spend_values == Values(spend_df_of(df, supplier_id, priority))
  IN [avg_delivery_time |-> Mean(dts, Prec),
      std_delivery_time |-> Std(dts, Prec),
      max_delivery_time |-> NCeil(max_delivery_time_arg(df, priority), Prec),
      avg_spend |-> Mean(spend_values, 1),
      std_spend |-> Std(spend_values, 1),
      min_spend |-> NFloor(SeqMin(spend_values), PerUnit),
      max_spend |-> NCeil(max_spend_arg(spend_values, priority, massive_simulation), PerUnit)]

\* Lines 91-112: the first membership function whose breakpoints skfuzzy's
\* assertion rejects, as the line of the call; 0 when all are accepted.
membership_assertion_line(bank) ==
  LET dl == delivery_time_low_abcd(bank)
      dm == delivery_time_medium_abc(bank)
      dh == delivery_time_high_abcd(bank)
      sl == spend_low_abcd(bank)
      sm == spend_medium_abc(bank)
      sh == spend_high_abcd(bank)
  IN IF ~trapmf_ok(dl[1], dl[2], dl[3], dl[4]) THEN 95
     ELSE IF ~trimf_ok(dm[1], dm[2], dm[3]) THEN 97
     ELSE IF ~trapmf_ok(dh[1], dh[2], dh[3], dh[4]) THEN 100
     ELSE IF ~trapmf_ok(sl[1], sl[2], sl[3], sl[4]) THEN 109
     ELSE IF ~trimf_ok(sm[1], sm[2], sm[3]) THEN 111
     ELSE IF ~trapmf_ok(sh[1], sh[2], sh[3], sh[4]) THEN 112
     ELSE 0

\* ------------------------------------------------------------ evaluation

Count(rows) == Len(rows)

\* FuzzyModel._evaluate_supplier_time_priority(quotation_ecn): the crisp inputs
\* read from the data frame (lines 223-266), then the decision.
evaluate_supplier_time_priority(df, obj, quotation_ecn) ==
  LET id == obj.evaluating_supplier_id
      quoted == Rows(df, [i \in DOMAIN df |-> df[i].supplier_id = id /\ df[i].ecn = quotation_ecn])
      quotation_date == SeqMax(Column(quoted, "quotation_date"))
      crisp_due_time == Max2(SopDay - quotation_date, 0)
      awarded == Rows(df, [i \in DOMAIN df |-> df[i].supplier_id = id /\ df[i].awarded])
      on_time == Rows(df, [i \in DOMAIN df |-> df[i].supplier_id = id /\ df[i].awarded /\ df[i].otd])
      crisp_delivery_time == SeqMax(Column(quoted, "lead_time"))
      NoLevels == Levels(0, 0, 0)
  IN IF IsNaN(quotation_date) THEN Raised("TypeError", 227)
     ELSE IF id \notin DOMAIN obj.spend_df THEN Raised("KeyError", 235)
     ELSE IF ~obj.new_supplier /\ Count(awarded) = 0 THEN Raised("ZeroDivisionError", 246)
     ELSE time_priority_decision(
            id, obj.new_supplier,
            due_time_level(crisp_due_time),
            delivery_time_level(obj.bank, crisp_delivery_time, 1),
            IF obj.new_supplier THEN NoLevels
            ELSE punctuality_level(Count(on_time), Count(awarded)),
            spend_level(obj.bank, obj.spend_df[id]))

\* FuzzyModel._evaluate_supplier_spend_priority(project): the crisp inputs read
\* from the data frame (lines 386-418), then the decision.  The output curves
\* (self.__supplier_low ...) exist only on an object built with priority "spend".
evaluate_supplier_spend_priority(df, obj, project) ==
  LET id == obj.evaluating_supplier_id
      crisp_price == SeqSum(Column(Rows(df, [i \in DOMAIN df |-> df[i].project = project /\ df[i].supplier_id = id]),
                                   "fy_spend"))
      own == Rows(df, [i \in DOMAIN df |-> df[i].supplier_id = id])
      awarded == Rows(df, [i \in DOMAIN df |-> df[i].supplier_id = id /\ df[i].awarded])
      on_time == Rows(df, [i \in DOMAIN df |-> df[i].supplier_id = id /\ df[i].awarded /\ df[i].otd])
      crisp_rows == IF obj.new_supplier THEN Column(own, "lead_time")
                    ELSE Column(awarded, "delivery_time")
      NoLevels == Levels(0, 0, 0)
  IN IF ~obj.new_supplier /\ Count(awarded) = 0 THEN Raised("ZeroDivisionError", 394)
     ELSE IF obj.evaluation_priority # "spend" THEN Raised("AttributeError", 469)
     ELSE spend_priority_decision(
            id, obj.new_supplier,
            spend_level(obj.bank, crisp_price),
            IF crisp_rows = <<>> THEN Levels(NaN, NaN, NaN)
            ELSE delivery_time_level(obj.bank, SeqSum(crisp_rows), Len(crisp_rows)),
            IF obj.new_supplier THEN NoLevels
            ELSE punctuality_level(Count(on_time), Count(awarded)))

\* The stats of a "completely new supplier" (lines 122-128).
fallback_stats(supplier_id) ==
  ("Supplier ID" :> supplier_id) @@ ("Score" :> 0) @@ ("Wait" :> One)
  @@ ("Implement" :> 0) @@ ("Action" :> "wait")

\* An object on which __init__ has not assigned self.stats.
NoStats == <<>>

\* FuzzyModel.__init__: the exception raised ("None" when the object is built),
\* the line raising it, whether logging.exception was called, whether
\* _evaluate_supplier_time_priority was called, and the object's attributes.
FuzzyModel_init(df, ref_supplier, quotation_ecn, evaluation_priority, massive_simulation, new_supplier) ==
  LET known == evaluation_priority \in {"time", "spend"}
      spend_df == IF known THEN spend_df_of(df, ref_supplier, evaluation_priority)
                  ELSE <<>>
      bank == variable_bank(df, ref_supplier, evaluation_priority, massive_simulation)
      completely_new_supplier == Cardinality(DOMAIN spend_df) < 2
      obj == [new_supplier |-> new_supplier,
              completely_new_supplier |-> completely_new_supplier,
              evaluating_supplier_id |-> ref_supplier,
              evaluation_priority |-> evaluation_priority,
              spend_df |-> spend_df,
              bank |-> bank,
              has_stats |-> FALSE,
              stats |-> NoStats]
      Fail(exception, line, logged, evaluated) ==
        [raised |-> exception, line |-> line, logged |-> logged,
         evaluated |-> evaluated, obj |-> <<>>]
      Built(o, evaluated) ==
        [raised |-> "None", line |-> 0, logged |-> FALSE,
         evaluated |-> evaluated, obj |-> o]
      assertion == membership_assertion_line(bank)
      evaluation == evaluate_supplier_time_priority(df, obj, quotation_ecn)
  IN IF ~known THEN Fail("AttributeError", 69, TRUE, FALSE)
     ELSE IF IsNaN(bank.max_delivery_time)
       THEN Fail("ValueError", IF evaluation_priority = "time" THEN 57 ELSE 64, FALSE, FALSE)
     ELSE IF IsNaN(bank.min_spend) THEN Fail("ValueError", 71, FALSE, FALSE)
     ELSE IF IsNaN(bank.max_spend)
       THEN Fail("ValueError",
                 IF evaluation_priority = "spend" THEN 80
                 ELSE IF massive_simulation THEN 76 ELSE 78, FALSE, FALSE)
     ELSE IF assertion # 0 THEN Fail("AssertionError", assertion, FALSE, FALSE)
     ELSE IF evaluation_priority = "spend" THEN Built(obj, FALSE)
     ELSE IF completely_new_supplier
       THEN Built([obj EXCEPT !.has_stats = TRUE, !.stats = fallback_stats(ref_supplier)],
                  FALSE)
     ELSE IF evaluation.raised # "None"
       THEN Fail(evaluation.raised, evaluation.line, FALSE, TRUE)
     ELSE Built([obj EXCEPT !.has_stats = TRUE, !.stats = evaluation.value], TRUE)

\* ---------------------------------------------------- item-master snapshots

\* The snapshots the model is checked on: two suppliers, an implemented ECN 1
\* (project 1, part number 1) with up to MaxAwarded awarded rows per supplier,
\* and an ECN 2 under quotation (project 2, part number 2) that each supplier
\* may have quoted.
MaxAwarded == 2

Suppliers == {1, 2}

Ecns == {1, 2}

Projects == {1, 2}

Priorities == {"time", "spend", "cost"}

\* "Delivery time" of supplier s's j-th awarded row.
HistDelivery(s, j) == IF s = 1 THEN 2 + 4 * j ELSE IF j = 1 THEN 8 ELSE 40

\* An awarded row of ECN 1.
HistRow(s, j, on_time) ==
  [supplier_id |-> s, ecn |-> 1, project |-> 1, part_number |-> 1,
   awarded |-> TRUE, otd |-> on_time, delivery_time |-> HistDelivery(s, j),
   lead_time |-> 5, fy_spend |-> 100 * s, quotation_date |-> SopDay - 400]

\* What a quotation of ECN 2 may hold: lead time (days), FY spend, and the days
\* left until SOP at the quotation date.
Quotes ==
  { [lead_time |-> 4, fy_spend |-> 100, due |-> 100],
    [lead_time |-> 8, fy_spend |-> 300, due |-> 75],
    [lead_time |-> 16, fy_spend |-> 500, due |-> 0 - 5] }

\* A quotation row of ECN 2 (not awarded: no delivery yet).
QuoteRow(s, q) ==
  [supplier_id |-> s, ecn |-> 2, project |-> 2, part_number |-> 2,
   awarded |-> FALSE, otd |-> FALSE, delivery_time |-> NaN,
   lead_time |-> q.lead_time, fy_spend |-> q.fy_spend,
   quotation_date |-> SopDay - q.due]

\* n awarded rows of supplier s, the first k delivered on time.
History(s, n, k) == [j \in 1..n |-> HistRow(s, j, j <= k)]

Quoted(s, qs) == IF qs = {} THEN <<>> ELSE << QuoteRow(s, CHOOSE q \in qs : TRUE) >>

Snapshots ==
  { History(1, n1, k1) \o History(2, n2, n2) \o Quoted(1, q1) \o Quoted(2, q2) :
      n1 \in 0..MaxAwarded, k1 \in 0..MaxAwarded, n2 \in 0..MaxAwarded,
      q1 \in {{}} \cup {{q} : q \in Quotes},
      q2 \in {{}} \cup {{q} : q \in {r \in Quotes : r.lead_time = 8}} }

\* ------------------------------------------------------------ state machine

VARIABLES
  df,       \* the item master handed to the evaluator
  pc,       \* "start", "constructed" (a FuzzyModel exists) or "raised"
  args,     \* the arguments of FuzzyModel(...)
  model,    \* the attributes of the FuzzyModel object
  result,   \* the last call: its name, the exception raised, the value returned
  logged,   \* logging.exception was called
  evaluated, \* _evaluate_supplier_time_priority was called
  calls     \* how many times FuzzyModel(...) was called on the snapshot

\* The simulation environment (simulation.py).
VARIABLES
  instances,          \* Supplier.instances
  supplier,           \* the Supplier objects, by the number in their id
  suppliers,          \* Environment.suppliers, a list of Supplier objects
  active_suppliers,   \* Environment.active_suppliers
  inactive_suppliers, \* Environment.inactive_suppliers
  ecns,               \* Environment.ecns: the ECN objects, ECN n at place n
  quotations,         \* every Quotation object, in the order of creation
  item_master,        \* Environment.item_master, a list of rows
  outcome             \* the last call on the simulation: name, arguments, exception

envvars == << instances, supplier, suppliers, active_suppliers, inactive_suppliers,
             ecns, quotations, item_master, outcome >>

vars == << df, pc, args, model, result, logged, evaluated, calls, envvars >>

\* No call on the simulation yet.
NoOutcome == [call |-> "none", arg |-> <<>>, raised |-> "None", line |-> 0]

\* Environment(): lines 571-576, with the class counter Supplier.instances = 0.
Environment_init ==
  /\ instances = 0
  /\ supplier = <<>>
  /\ suppliers = <<>>
  /\ active_suppliers = <<>>
  /\ inactive_suppliers = <<>>
  /\ ecns = <<>>
  /\ quotations = <<>>
  /\ item_master = <<>>
  /\ outcome = NoOutcome

\* FuzzyModel(...) is called at most MaxCalls times on a snapshot.
MaxCalls == 2

NoArgs == <<>>

NoModel == <<>>

Init ==
  /\ df \in Snapshots
  /\ pc = "start"
  /\ args = NoArgs
  /\ model = NoModel
  /\ result = [call |-> "none", arg |-> <<>>, raised |-> "None", line |-> 0,
               value |-> <<>>]
  /\ logged = FALSE
  /\ evaluated = FALSE
  /\ calls = 0
  /\ Environment_init

\* The last call: its name and argument, and how it ended.
CallResult(name, arg, r) ==
  [call |-> name, arg |-> arg, raised |-> r.raised, line |-> r.line, value |-> r.value]

\* A constructor with hidden state: from the second call on the snapshot the
\* supplier is taken as new whatever the flag says.
FuzzyModel_call_remembering(ref_supplier, quotation_ecn, evaluation_priority, massive_simulation, new_supplier) ==
  LET c == FuzzyModel_init(df, ref_supplier, quotation_ecn, evaluation_priority,
                           massive_simulation, new_supplier \/ calls > 0)
  IN /\ args' = [ref_supplier |-> ref_supplier, quotation_ecn |-> quotation_ecn,
                 evaluation_priority |-> evaluation_priority,
                 massive_simulation |-> massive_simulation,
                 new_supplier |-> new_supplier]
     /\ pc' = IF c.raised = "None" THEN "constructed" ELSE "raised"
     /\ model' = c.obj
     /\ result' = [call |-> "__init__", arg |-> <<>>, raised |-> c.raised,
                   line |-> c.line, value |-> <<>>]
     /\ logged' = c.logged
     /\ evaluated' = c.evaluated
     /\ calls' = calls + 1
     /\ UNCHANGED << df, envvars >>

\* A constructor that consumes what it read: the evaluated quotation rows are
\* dropped from the caller's data frame.
FuzzyModel_call_dropping(ref_supplier, quotation_ecn, evaluation_priority, massive_simulation, new_supplier) ==
  LET c == FuzzyModel_init(df, ref_supplier, quotation_ecn, evaluation_priority,
                           massive_simulation, new_supplier)
  IN /\ args' = [ref_supplier |-> ref_supplier, quotation_ecn |-> quotation_ecn,
                 evaluation_priority |-> evaluation_priority,
                 massive_simulation |-> massive_simulation,
                 new_supplier |-> new_supplier]
     /\ pc' = IF c.raised = "None" THEN "constructed" ELSE "raised"
     /\ model' = c.obj
     /\ result' = [call |-> "__init__", arg |-> <<>>, raised |-> c.raised,
                   line |-> c.line, value |-> <<>>]
     /\ logged' = c.logged
     /\ evaluated' = c.evaluated
     /\ calls' = calls + 1
     /\ df' = Rows(df, [i \in DOMAIN df |-> ~(df[i].supplier_id = ref_supplier
                                               /\ df[i].ecn = quotation_ecn)])
     /\ UNCHANGED envvars

\* The effect of FuzzyModel(df, ref_supplier, quotation_ecn,
\* evaluation_priority, massive_simulation, new_supplier) on a fresh object.
FuzzyModel_call(ref_supplier, quotation_ecn, evaluation_priority, massive_simulation, new_supplier) ==
  LET c == FuzzyModel_init(df, ref_supplier, quotation_ecn, evaluation_priority,
                           massive_simulation, new_supplier)
  IN /\ args' = [ref_supplier |-> ref_supplier, quotation_ecn |-> quotation_ecn,
                 evaluation_priority |-> evaluation_priority,
                 massive_simulation |-> massive_simulation,
                 new_supplier |-> new_supplier]
     /\ pc' = IF c.raised = "None" THEN "constructed" ELSE "raised"
     /\ model' = c.obj
     /\ result' = [call |-> "__init__", arg |-> <<>>, raised |-> c.raised,
                   line |-> c.line, value |-> <<>>]
     /\ logged' = c.logged
     /\ evaluated' = c.evaluated
     /\ calls' = calls + 1
     /\ UNCHANGED << df, envvars >>

\* The first FuzzyModel(...) on the snapshot.
Construct(ref_supplier, quotation_ecn, evaluation_priority, massive_simulation, new_supplier) ==
  /\ pc = "start"
  /\ FuzzyModel_call(ref_supplier, quotation_ecn, evaluation_priority,
                     massive_simulation, new_supplier)

\* FuzzyModel(...) once more, on the same snapshot with the same arguments.
ConstructAgain ==
  /\ pc # "start"
  /\ calls < MaxCalls
  /\ FuzzyModel_call(args.ref_supplier, args.quotation_ecn, args.evaluation_priority,
                     args.massive_simulation, args.new_supplier)

\* FuzzyModel.get_stats(): return self.stats.
GetStats ==
  /\ pc = "constructed"
  /\ result' = CallResult("get_stats", <<>>,
                          IF model.has_stats THEN Returned(model.stats)
                          ELSE Raised("AttributeError", 143))
  /\ UNCHANGED << df, pc, args, model, logged, evaluated, calls, envvars >>

\* FuzzyModel._evaluate_supplier_spend_priority(project)
EvaluateSpendPriority(project) ==
  /\ pc = "constructed"
  /\ result' = CallResult("_evaluate_supplier_spend_priority", project,
                          evaluate_supplier_spend_priority(df, model, project))
  /\ UNCHANGED << df, pc, args, model, logged, evaluated, calls, envvars >>

Next ==
  \/ \E s \in Suppliers, e \in {2}, p \in Priorities, m \in BOOLEAN, n \in BOOLEAN :
       Construct(s, e, p, m, n)
  \/ ConstructAgain
  \/ GetStats
  \/ \E project \in Projects : EvaluateSpendPriority(project)

Spec == Init /\ [][Next]_vars

\* ------------------------------------------- rule bases on crisp inputs

\* A snapshot with three suppliers whose spends (100, 300, 500) and delivery
\* times (6, 8, 10) make every membership function of both priorities proper.
RefSnapshot ==
  << HistRow(1, 1, TRUE), HistRow(1, 2, TRUE), HistRow(2, 1, TRUE),
     QuoteRow(1, CHOOSE q \in Quotes : q.lead_time = 8),
     QuoteRow(2, CHOOSE q \in Quotes : q.lead_time = 4),
     QuoteRow(3, CHOOSE q \in Quotes : q.lead_time = 4) >>

\* Crisp inputs: days to SOP, delivery time (days), punctuality (percent) and
\* spend (grid index, 0.01).
DueGrid == {0, 45, 60, 75, 80, 200}

DeliveryGrid == {4, 7, 8, 9, 10, 12}

PunctualityGrid == {0, 40, 50, 60, 90, 100}

SpendGrid == {50, 200, 300, 400, 500}

Percent == 10 * 10

RuleInit ==
  /\ df = RefSnapshot
  /\ pc = "constructed"
  /\ \E p \in {"time", "spend"}, n \in BOOLEAN :
       LET c == FuzzyModel_init(RefSnapshot, 1, 2, p, FALSE, n)
       IN /\ c.raised = "None"
          /\ args = [ref_supplier |-> 1, quotation_ecn |-> 2, evaluation_priority |-> p,
                     massive_simulation |-> FALSE, new_supplier |-> n]
          /\ model = c.obj
          /\ evaluated = c.evaluated
  /\ result = [call |-> "__init__", arg |-> <<>>, raised |-> "None", line |-> 0,
               value |-> <<>>]
  /\ logged = FALSE
  /\ calls = 1
  /\ Environment_init

\* Lines 250-383 of _evaluate_supplier_time_priority on given crisp inputs.
TimeDecision(crisp_due_time, crisp_delivery_time, crisp_punctuality, crisp_spend) ==
  /\ pc = "constructed"
  /\ model.evaluation_priority = "time"
  /\ model.new_supplier => crisp_punctuality = 0
  /\ pc' = "evaluated"
  /\ args' = [crisp_due_time |-> crisp_due_time,
              crisp_delivery_time |-> crisp_delivery_time,
              crisp_punctuality |-> crisp_punctuality,
              crisp_spend |-> crisp_spend]
  /\ result' = CallResult("_evaluate_supplier_time_priority", args',
       time_priority_decision(
         model.evaluating_supplier_id, model.new_supplier,
         due_time_level(crisp_due_time),
         delivery_time_level(model.bank, crisp_delivery_time, 1),
         IF model.new_supplier THEN Levels(0, 0, 0)
         ELSE punctuality_level(crisp_punctuality, Percent),
         spend_level(model.bank, crisp_spend)))
  /\ evaluated' = TRUE
  /\ UNCHANGED << df, model, logged, calls, envvars >>

\* Lines 398-537 of _evaluate_supplier_spend_priority on given crisp inputs.
SpendDecision(crisp_price, crisp_delivery_time, crisp_punctuality) ==
  /\ pc = "constructed"
  /\ model.evaluation_priority = "spend"
  /\ model.new_supplier => crisp_punctuality = 0
  /\ pc' = "evaluated"
  /\ args' = [crisp_price |-> crisp_price,
              crisp_delivery_time |-> crisp_delivery_time,
              crisp_punctuality |-> crisp_punctuality]
  /\ result' = CallResult("_evaluate_supplier_spend_priority", args',
       spend_priority_decision(
         model.evaluating_supplier_id, model.new_supplier,
         spend_level(model.bank, crisp_price),
         delivery_time_level(model.bank, crisp_delivery_time, 1),
         IF model.new_supplier THEN Levels(0, 0, 0)
         ELSE punctuality_level(crisp_punctuality, Percent)))
  /\ UNCHANGED << df, model, logged, evaluated, calls, envvars >>

RuleNext ==
  \/ \E due \in DueGrid, del \in DeliveryGrid, pun \in PunctualityGrid, sp \in SpendGrid :
       TimeDecision(due, del, pun, sp)
  \/ \E price \in SpendGrid, del \in DeliveryGrid, pun \in PunctualityGrid :
       SpendDecision(price, del, pun)

RuleSpec == RuleInit /\ [][RuleNext]_vars

\* ------------------------------------------------ simulation: Environment

fuzzyvars == << df, pc, args, model, result, logged, evaluated, calls >>

\* x in list.
In(x, list) == \E k \in 1..Len(list) : list[k] = x

\* list.remove(x) on a list that holds x: the first x is taken out.
Remove(list, x) ==
  LET i == CHOOSE k \in 1..Len(list) : list[k] = x /\ \A j \in 1..(k - 1) : list[j] # x
  IN SubSeq(list, 1, i - 1) \o SubSeq(list, i + 1, Len(list))

\* A call that returned, and a call that left by an exception raised at a line.
Done(name, arg) == [call |-> name, arg |-> arg, raised |-> "None", line |-> 0]

Failed(name, arg, exception, line) ==
  [call |-> name, arg |-> arg, raised |-> exception, line |-> line]

\* Bounds of the exploration: Supplier(...) calls, names, length of the lists.
MaxInstances == 3

MaxList == 2

Names == {"A", "B"}

\* Line 419: the id "1" + str(Supplier.instances).zfill(7), read as a number
\* (seven digits hold every counter value below ten million).
Supplier_id(n) == 10000000 + n

\* Supplier.__init__ (lines 418-429): the attributes the Environment reads.
Supplier_init(name) == [name |-> name, quotations |-> <<>>, awarded_ecns |-> <<>>]

\* Supplier(name, ...) called directly.  The counter is advanced at line 418;
\* a profile that is no key of the factor dictionaries raises KeyError at 432.
SupplierNew(name, valid_profiles) ==
  /\ instances < MaxInstances
  /\ instances' = instances + 1
  /\ IF valid_profiles
     THEN /\ supplier' = supplier @@ ((instances + 1) :> Supplier_init(name))
          /\ outcome' = Done("Supplier", name)
     ELSE /\ UNCHANGED supplier
          /\ outcome' = Failed("Supplier", name, "KeyError", 432)
  /\ UNCHANGED << suppliers, active_suppliers, inactive_suppliers, ecns, quotations,
                  item_master, fuzzyvars >>

\* Environment.add_supplier(supplier), lines 646-647.
AddSupplier(s) ==
  /\ s \in DOMAIN supplier
  /\ Len(suppliers) < MaxList /\ Len(active_suppliers) < MaxList
  /\ suppliers' = Append(suppliers, s)
  /\ active_suppliers' = Append(active_suppliers, s)
  /\ outcome' = Done("add_supplier", s)
  /\ UNCHANGED << instances, supplier, inactive_suppliers, ecns, quotations,
                  item_master, fuzzyvars >>

\* Environment.activate_supplier(supplier), lines 666-670: the append comes
\* before the remove, which raises ValueError when the supplier is not inactive.
ActivateSupplier(s) ==
  /\ s \in DOMAIN supplier
  /\ Len(active_suppliers) < MaxList
  /\ IF In(s, active_suppliers)
     THEN /\ outcome' = Done("activate_supplier", s)
          /\ UNCHANGED << active_suppliers, inactive_suppliers >>
     ELSE /\ active_suppliers' = Append(active_suppliers, s)
          /\ IF In(s, inactive_suppliers)
             THEN /\ inactive_suppliers' = Remove(inactive_suppliers, s)
                  /\ outcome' = Done("activate_supplier", s)
             ELSE /\ UNCHANGED inactive_suppliers
                  /\ outcome' = Failed("activate_supplier", s, "ValueError", 670)
  /\ UNCHANGED << instances, supplier, suppliers, ecns, quotations, item_master,
                  fuzzyvars >>

\* Environment.deactivate_supplier(supplier), lines 706-707: the append comes
\* before the remove, which raises ValueError when the supplier is not active.
DeactivateSupplier(s) ==
  /\ s \in DOMAIN supplier
  /\ Len(inactive_suppliers) < MaxList
  /\ inactive_suppliers' = Append(inactive_suppliers, s)
  /\ IF In(s, active_suppliers)
     THEN /\ active_suppliers' = Remove(active_suppliers, s)
          /\ outcome' = Done("deactivate_supplier", s)
     ELSE /\ UNCHANGED active_suppliers
          /\ outcome' = Failed("deactivate_supplier", s, "ValueError", 707)
  /\ UNCHANGED << instances, supplier, suppliers, ecns, quotations, item_master,
                  fuzzyvars >>

\* A name check that only looks at the active suppliers.
name_exists_among_active(name) ==
  \E k \in 1..Len(active_suppliers) : supplier[active_suppliers[k]].name = name

\* The name is the name of a supplier of the environment (lines 687-688).
name_exists(name) == \E k \in 1..Len(suppliers) : supplier[suppliers[k]].name = name

\* Environment.create_supplier(name, profiles, active), lines 687-697.
CreateSupplier(name, valid_profiles, active) ==
  /\ name_exists(name) \/ (instances < MaxInstances /\ Len(suppliers) < MaxList
                             /\ Len(active_suppliers) < MaxList
                             /\ Len(inactive_suppliers) < MaxList)
  /\ IF name_exists(name)
     THEN /\ outcome' = Failed("create_supplier", name, "Exception", 689)
          /\ UNCHANGED << instances, supplier, suppliers, active_suppliers,
                          inactive_suppliers >>
     ELSE /\ instances' = instances + 1
          /\ IF ~valid_profiles
             THEN /\ outcome' = Failed("create_supplier", name, "KeyError", 432)
                  /\ UNCHANGED << supplier, suppliers, active_suppliers,
                                  inactive_suppliers >>
             ELSE /\ supplier' = supplier @@ ((instances + 1) :> Supplier_init(name))
                  /\ suppliers' = Append(suppliers, instances + 1)
                  /\ active_suppliers' =
                       IF active THEN Append(active_suppliers, instances + 1)
                       ELSE Remove(Append(active_suppliers, instances + 1), instances + 1)
                  /\ inactive_suppliers' =
                       IF active THEN inactive_suppliers
                       ELSE Append(inactive_suppliers, instances + 1)
                  /\ outcome' = Done("create_supplier", name)
  /\ UNCHANGED << ecns, quotations, item_master, fuzzyvars >>

\* ------------------------------------------------------ simulation: ECNs

\* self.environment_times["release_ecn_min"] and ["release_ecn_max"], days.
release_ecn_min == 0 - 110

release_ecn_max == 436

\* ECN.__init__ (lines 243-249): ecn_id is the value of ECN.instances, release
\* is ecn_date as days after the Design freeze, items the number of part numbers.
ECN_init(ecn_id, release, items) ==
  [ecn_id |-> ecn_id, release |-> release, items |-> items,
   status |-> "Under review", quotations |-> <<>>]

\* Lines 727-741: the passes of the while loop, each creating so many part
\* numbers over the seven kinds; the loop ends after the first pass that
\* created one.
RECURSIVE ecn_part_numbers(_)
ecn_part_numbers(passes) ==
  IF Head(passes) > 0 THEN Head(passes) ELSE ecn_part_numbers(Tail(passes))

\* Line 744: the rounded normal draw, kept within -160 and 436 days.
ecn_date(draw) == Min2(Max2(draw, 0 - 160), 436)

\* What gen_ecns draws for one ECN: the part numbers created in each pass of
\* the while loop and the rounded release time.
MaxEcns == 2

Passes == { << 1 >>, << 0, 2 >> }

ReleaseDraws == { 0 - 200, 0 - 130, 0 - 110, 60, 500 }

Draws == [passes : Passes, release : ReleaseDraws]

\* Environment.gen_ecns(project, qty), lines 721-751.
GenEcns(qty, drawn) ==
  /\ Len(ecns) + qty <= MaxEcns
  /\ ecns' = ecns \o [k \in 1..qty |->
                        ECN_init(Len(ecns) + k, ecn_date(drawn[k].release),
                                 ecn_part_numbers(drawn[k].passes))]
  /\ outcome' = Done("gen_ecns", qty)
  /\ UNCHANGED << instances, supplier, suppliers, active_suppliers, inactive_suppliers,
                  quotations, item_master, fuzzyvars >>

\* ECN.reset(), lines 280-281.
EcnReset(e) ==
  /\ e \in 1..Len(ecns)
  /\ ecns' = [ecns EXCEPT ![e].status = "Under review", ![e].quotations = <<>>]
  /\ outcome' = Done("reset", e)
  /\ UNCHANGED << instances, supplier, suppliers, active_suppliers, inactive_suppliers,
                  quotations, item_master, fuzzyvars >>

\* ------------------------------------------------ simulation: quotations

\* The objects a call works on.
Objects(sup, ecn_list, quotation_list, rows) ==
  [supplier |-> sup, ecns |-> ecn_list, quotations |-> quotation_list,
   item_master |-> rows, df |-> <<>>]

\* A check that only looks at the quotation the supplier made last.
already_quoted_last(h, s, e) ==
  /\ h.supplier[s].quotations # <<>>
  /\ h.quotations[h.supplier[s].quotations[Len(h.supplier[s].quotations)]].ecn = e

\* Lines 487-490: the supplier already holds a quotation of the ECN.
already_quoted(h, s, e) ==
  \E k \in 1..Len(h.supplier[s].quotations) :
    h.quotations[h.supplier[s].quotations[k]].ecn = e

\* Lines 500-533: one row per part number of the ECN, not awarded.
quotation_df(h, s, e) ==
  [j \in 1..h.ecns[e].items |->
     [ecn |-> e, part_number |-> j, supplier_id |-> s, awarded |-> FALSE]]

\* Supplier.quote(ecn, rfq_date), lines 486-536: nothing (None) for a quoted
\* ECN; else a Quotation is created, which appends itself to ecn.quotations
\* (line 314), gets its rows and is appended to self.quotations (line 535).
Supplier_quote(h, s, e) ==
  IF already_quoted(h, s, e) THEN [h EXCEPT !.df = <<>>]
  ELSE LET q == Len(h.quotations) + 1
       IN [supplier |-> [h.supplier EXCEPT ![s].quotations = Append(@, q)],
           ecns |-> [h.ecns EXCEPT ![e].quotations = Append(@, q)],
           quotations |-> Append(h.quotations,
                                 [ecn |-> e, supplier |-> s, awarded |-> FALSE]),
           item_master |-> h.item_master,
           df |-> quotation_df(h, s, e)]

\* Lines 894-895 (915-916): the supplier quotes and pd.concat adds the rows;
\* a None is dropped by pd.concat.
quote_and_concat(h, s, e) ==
  LET r == Supplier_quote(h, s, e)
  IN [r EXCEPT !.item_master = h.item_master \o r.df]

\* Lines 891-895: every supplier of the list, in order.
RECURSIVE quote_each(_, _, _)
quote_each(h, list, e) ==
  IF list = <<>> THEN h
  ELSE quote_each(quote_and_concat(h, Head(list), e), Tail(list), e)

\* Lines 910-920: the first active supplier of the list quotes and the method
\* returns from inside the loop; an inactive supplier is only reported.
RECURSIVE quote_some(_, _, _, _)
quote_some(h, active, list, e) ==
  IF list = <<>> THEN h
  ELSE IF In(Head(list), active) THEN quote_and_concat(h, Head(list), e)
  ELSE quote_some(h, active, Tail(list), e)

\* Supplier.quote(ecn, rfq_date) called directly: no row reaches the item master.
SupplierQuote(s, e) ==
  /\ s \in DOMAIN supplier /\ e \in 1..Len(ecns)
  /\ LET r == Supplier_quote(Objects(supplier, ecns, quotations, item_master), s, e)
     IN /\ supplier' = r.supplier
        /\ ecns' = r.ecns
        /\ quotations' = r.quotations
  /\ outcome' = Done("quote", << s, e >>)
  /\ UNCHANGED << instances, suppliers, active_suppliers, inactive_suppliers,
                  item_master, fuzzyvars >>

\* Environment.quote_ecn_all_suppliers(ecn), lines 888-897.
QuoteEcnAllSuppliers(e) ==
  /\ e \in 1..Len(ecns)
  /\ LET released == [ecns EXCEPT ![e].status = "Engineering release"]
         r == quote_each(Objects(supplier, released, quotations, item_master),
                         active_suppliers, e)
     IN /\ supplier' = r.supplier
        /\ ecns' = r.ecns
        /\ quotations' = r.quotations
        /\ item_master' = r.item_master
  /\ outcome' = Done("quote_ecn_all_suppliers", << e >>)
  /\ UNCHANGED << instances, suppliers, active_suppliers, inactive_suppliers,
                  fuzzyvars >>

\* Environment.quote_ecn_some_suppliers(ecn, quoting_suppliers), lines 907-920.
QuoteEcnSomeSuppliers(e, quoting_suppliers) ==
  /\ e \in 1..Len(ecns)
  /\ \A k \in 1..Len(quoting_suppliers) : quoting_suppliers[k] \in DOMAIN supplier
  /\ LET released == [ecns EXCEPT ![e].status = "Engineering release"]
         r == quote_some(Objects(supplier, released, quotations, item_master),
                         active_suppliers, quoting_suppliers, e)
     IN /\ supplier' = r.supplier
        /\ ecns' = r.ecns
        /\ quotations' = r.quotations
        /\ item_master' = r.item_master
  /\ outcome' = Done("quote_ecn_some_suppliers", << e, quoting_suppliers >>)
  /\ UNCHANGED << instances, suppliers, active_suppliers, inactive_suppliers,
                  fuzzyvars >>

\* ------------------------------------------------ simulation: implement_ecn

\* A check that only looks at the first quotation of every other supplier.
awarded_elsewhere_first(e, s) ==
  \E k \in 1..Len(suppliers) :
    /\ suppliers[k] # s
    /\ supplier[suppliers[k]].quotations # <<>>
    /\ LET q == quotations[supplier[suppliers[k]].quotations[1]]
       IN q.ecn = e /\ q.awarded

\* Lines 937-941: a supplier of the environment other than the awarded one
\* holds an awarded quotation of the ECN.
awarded_elsewhere(e, s) ==
  \E k \in 1..Len(suppliers) :
    /\ suppliers[k] # s
    /\ \E j \in 1..Len(supplier[suppliers[k]].quotations) :
         LET q == quotations[supplier[suppliers[k]].quotations[j]]
         IN q.ecn = e /\ q.awarded

\* Lines 945-952 (958-962): the loop over awarded_supplier.quotations.  Without
\* overwrite it raises at an awarded quotation of the ECN, after the quotations
\* before it were handled.
RECURSIVE award_loop(_, _, _, _, _)
award_loop(qs, list, e, overwrite, found) ==
  IF list = <<>> THEN [quotations |-> qs, found |-> found, raised |-> FALSE]
  ELSE IF qs[Head(list)].ecn # e THEN award_loop(qs, Tail(list), e, overwrite, found)
  ELSE IF ~overwrite /\ qs[Head(list)].awarded
    THEN [quotations |-> qs, found |-> found, raised |-> TRUE]
  ELSE award_loop([qs EXCEPT ![Head(list)].awarded = TRUE], Tail(list), e, overwrite, TRUE)

\* Lines 1017-1049: the rows of the ECN and the supplier get their dates and
\* Awarded = True (the dates drawn are not kept in the model).
award_rows(rows, e, s) ==
  [i \in DOMAIN rows |->
     IF rows[i].ecn = e /\ rows[i].supplier_id = s
     THEN [rows[i] EXCEPT !.awarded = TRUE] ELSE rows[i]]

\* Environment.implement_ecn(ecn, awarded_supplier, overwrite), lines 936-1053.
ImplementEcn(e, s, overwrite) ==
  /\ e \in 1..Len(ecns) /\ s \in DOMAIN supplier
  /\ LET arg == << e, s, overwrite >>
         loop == award_loop(quotations, supplier[s].quotations, e, overwrite, FALSE)
     IN IF ~overwrite /\ awarded_elsewhere(e, s)
        THEN /\ outcome' = Failed("implement_ecn", arg, "Exception", 941)
             /\ UNCHANGED << supplier, ecns, quotations, item_master >>
        ELSE IF loop.raised
        THEN /\ outcome' = Failed("implement_ecn", arg, "Exception", 948)
             /\ quotations' = loop.quotations
             /\ UNCHANGED << supplier, ecns, item_master >>
        ELSE IF ~loop.found
        THEN /\ outcome' = Failed("implement_ecn", arg, "Exception",
                                  IF overwrite THEN 964 ELSE 954)
             /\ UNCHANGED << supplier, ecns, quotations, item_master >>
        ELSE /\ quotations' = loop.quotations
             /\ item_master' = award_rows(item_master, e, s)
             /\ supplier' = [supplier EXCEPT ![s].awarded_ecns = Append(@, e)]
             /\ ecns' = [ecns EXCEPT ![e].status = "Released for production"]
             /\ outcome' = Done("implement_ecn", arg)
  /\ UNCHANGED << instances, suppliers, active_suppliers, inactive_suppliers, fuzzyvars >>

\* ------------------------------------------------- simulation: state machine

\* The evaluator is not used by the simulation runs below.
FuzzyIdle ==
  /\ df = <<>>
  /\ pc = "start"
  /\ args = NoArgs
  /\ model = NoModel
  /\ result = [call |-> "none", arg |-> <<>>, raised |-> "None", line |-> 0,
               value |-> <<>>]
  /\ logged = FALSE
  /\ evaluated = FALSE
  /\ calls = 0

\* Environment() followed by calls that create, add, activate and deactivate
\* suppliers.
SupplierInit == FuzzyIdle /\ Environment_init

SupplierNext ==
  \/ \E name \in Names, valid \in BOOLEAN : SupplierNew(name, valid)
  \/ \E s \in DOMAIN supplier : AddSupplier(s)
  \/ \E name \in Names, valid \in BOOLEAN, active \in BOOLEAN :
       CreateSupplier(name, valid, active)
  \/ \E s \in DOMAIN supplier : ActivateSupplier(s)
  \/ \E s \in DOMAIN supplier : DeactivateSupplier(s)

SupplierSpec == SupplierInit /\ [][SupplierNext]_vars

\* The lists of suppliers handed to quote_ecn_some_suppliers.
SupplierLists ==
  {<< a >> : a \in DOMAIN supplier} \cup
  {pair \in (DOMAIN supplier) \X (DOMAIN supplier) : pair[1] # pair[2]}

\* An Environment after gen_ecns(project, 1), create_supplier("A") and
\* create_supplier("B", active = b): one ECN of two part numbers, released 60
\* days after the Design freeze, and two suppliers, the second active or not.
RfqInit ==
  /\ FuzzyIdle
  /\ instances = 2
  /\ supplier = << Supplier_init("A"), Supplier_init("B") >>
  /\ suppliers = << 1, 2 >>
  /\ \E b \in BOOLEAN :
       /\ active_suppliers = (IF b THEN << 1, 2 >> ELSE << 1 >>)
       /\ inactive_suppliers = (IF b THEN <<>> ELSE << 2 >>)
  /\ ecns = << ECN_init(1, ecn_date(60), 2) >>
  /\ quotations = <<>>
  /\ item_master = <<>>
  /\ outcome = Done("create_supplier", "B")

\* The calls that send RFQs, implement and reset the ECN.
RfqNext ==
  \/ \E s \in DOMAIN supplier, e \in 1..Len(ecns) : SupplierQuote(s, e)
  \/ \E e \in 1..Len(ecns) : QuoteEcnAllSuppliers(e)
  \/ \E e \in 1..Len(ecns), list \in SupplierLists : QuoteEcnSomeSuppliers(e, list)
  \/ \E e \in 1..Len(ecns), s \in DOMAIN supplier : ImplementEcn(e, s, FALSE)
  \/ \E e \in 1..Len(ecns) : EcnReset(e)

RfqSpec == RfqInit /\ [][RfqNext]_vars

\* An Environment after gen_ecns(project, 2), create_supplier("A") and
\* create_supplier("B"): two active suppliers and two ECNs, of one and of two
\* part numbers.
SourcingInit ==
  /\ FuzzyIdle
  /\ instances = 2
  /\ supplier = << Supplier_init("A"), Supplier_init("B") >>
  /\ suppliers = << 1, 2 >>
  /\ active_suppliers = << 1, 2 >>
  /\ inactive_suppliers = <<>>
  /\ ecns = << ECN_init(1, ecn_date(60), 1), ECN_init(2, ecn_date(60), 2) >>
  /\ quotations = <<>>
  /\ item_master = <<>>
  /\ outcome = Done("create_supplier", "B")

\* Any sequence of quote and implement_ecn calls without overwrite.
SourcingNext ==
  \/ \E s \in DOMAIN supplier, e \in 1..Len(ecns) : SupplierQuote(s, e)
  \/ \E e \in 1..Len(ecns) : QuoteEcnAllSuppliers(e)
  \/ \E e \in 1..Len(ecns), s \in DOMAIN supplier : ImplementEcn(e, s, FALSE)

SourcingSpec == SourcingInit /\ [][SourcingNext]_vars

\* Environment() followed by gen_ecns calls only.
GenInit == FuzzyIdle /\ Environment_init

GenNext ==
  \E qty \in 1..MaxEcns, drawn \in [1..MaxEcns -> Draws] : GenEcns(qty, drawn)

GenSpec == GenInit /\ [][GenNext]_vars

\* ------------------------------------------------------------------ claims

Called == pc # "start"

TimePriority == Called /\ args.evaluation_priority = "time"

\* len(self.spend_df) < 2 for the arguments of the call (line 82).
FewerThanTwoSpends ==
  Cardinality(DOMAIN spend_df_of(df, args.ref_supplier, args.evaluation_priority)) < 2

RuleEvaluated == pc = "evaluated"

TimeExisting == model.evaluation_priority = "time" /\ ~model.new_supplier

\* The crisp inputs of a rule-base evaluation lie inside their universes.
InsideUniverses ==
  /\ args.crisp_delivery_time \in 0..DeliveryLast(model.bank)
  /\ args.crisp_punctuality \in 0..PunctualityLast
  /\ IF model.evaluation_priority = "time"
     THEN /\ args.crisp_due_time \in 0..DueTimeLast
          /\ args.crisp_spend \in 0..SpendLast(model.bank)
     ELSE args.crisp_price \in 0..SpendLast(model.bank)

\* C1: every time-priority or spend-priority evaluation whose crisp inputs lie
\* inside their universes completes, and its Score lies in [0, 10].
C1_ScoreInRange ==
  (RuleEvaluated /\ InsideUniverses) =>
    (result.raised = "None" /\ result.value["Score"] \in 0..(10 * PerUnit))

\* C2: under priority "time", when the spend aggregate has fewer than 2 entries,
\* construction completes, get_stats returns the record Score 0, Wait 1,
\* Implement 0, Action "Wait", and _evaluate_supplier_time_priority is not called.
C2_FallbackRecord ==
  (TimePriority /\ FewerThanTwoSpends /\ Len(delivery_times(df)) >= 2) =>
    /\ pc = "constructed"
    /\ ~evaluated
    /\ model.has_stats
    /\ model.stats["Score"] = 0
    /\ model.stats["Wait"] = One
    /\ model.stats["Implement"] = 0
    /\ model.stats["Action"] = "Wait"
    /\ (result.call = "get_stats" => result.raised = "None" /\ result.value = model.stats)

\* C3: a priority that is neither "time" nor "spend" is rejected by an error
\* raised at the priority dispatch (lines 54-67), before any spend statistic is
\* computed and before any universe or membership function is built.
C3_InvalidPriorityRejected ==
  (Called /\ args.evaluation_priority \notin {"time", "spend"}) =>
    (pc = "raised" /\ result.line \in 54..67)

\* C4: for each valid priority and valid data, construction followed by
\* get_stats yields a decision record; under "spend" the record carries Score,
\* Low, Regular, High and Classification.
C4_GetStatsYieldsRecord ==
  (result.call = "get_stats" /\ args.evaluation_priority \in {"time", "spend"}) =>
    /\ result.raised = "None"
    /\ args.evaluation_priority = "spend" =>
         {"Score", "Low", "Regular", "High", "Classification"} \subseteq DOMAIN result.value

TimeRecordComplete(stats, new_supplier) ==
  /\ {"Supplier ID", "New supplier", "Score", "Wait", "Implement", "Action"}
       \cup {RuleKey(i) : i \in 1..18} \subseteq DOMAIN stats
  /\ stats["New supplier"] = new_supplier
  /\ \A i \in 1..18 : IsNaN(stats[RuleKey(i)]) <=> (new_supplier /\ i > 6)

RecordMax(rule_numbers) == SetMax({result.value[RuleKey(i)] : i \in rule_numbers})

\* C7: in the time-priority existing-supplier rule base the Wait rules are
\* 1,2,3,7,9,10,13,14,15,16 and the Implement rules 4,5,6,8,11,12,17,18 (each
\* rule in exactly one set); the record's Wait is the largest firing strength of
\* the Wait rules and its Implement the largest of the Implement rules.
C7_TaggedMaxima ==
  LET WaitRules == {1, 2, 3, 7, 9, 10, 13, 14, 15, 16}
      ImplementRules == {4, 5, 6, 8, 11, 12, 17, 18}
  IN /\ WaitRules \cap ImplementRules = {}
     /\ WaitRules \cup ImplementRules = 1..18
     /\ (RuleEvaluated /\ TimeExisting /\ result.raised = "None") =>
          /\ result.value["Wait"] = RecordMax(WaitRules)
          /\ result.value["Implement"] = RecordMax(ImplementRules)

\* Rule 13 alone carries the Wait strength, next to a smaller Implement strength.
C7_Witness ==
  /\ RuleEvaluated /\ TimeExisting /\ result.raised = "None"
  /\ result.value[RuleKey(13)] > RecordMax({1, 2, 3, 7, 9, 10, 14, 15, 16})
  /\ result.value["Implement"] > 0
  /\ result.value["Implement"] < result.value["Wait"]

\* The largest sample of the curve mf clipped at strength.
ClippedPeak(strength, mf) ==
  SetMax({Activation(strength, mf)[k] : k \in DOMAIN mf})

\* C8: under time priority the Action is "Implement" exactly when the peak of
\* the clipped Implement curve is strictly greater than the peak of the clipped
\* Wait curve, and "Wait" otherwise, ties included.
C8_ActionByPeak ==
  (RuleEvaluated /\ model.evaluation_priority = "time" /\ result.raised = "None") =>
    LET rules == [i \in 1..(IF model.new_supplier THEN 6 ELSE 18) |->
                    result.value[RuleKey(i)]]
        wait_peak == ClippedPeak(wait_strength(model.new_supplier, rules), supplier_wait)
        implement_peak ==
          ClippedPeak(implement_strength(model.new_supplier, rules), supplier_implement)
    IN /\ result.value["Wait"] = wait_peak
       /\ result.value["Implement"] = implement_peak
       /\ result.value["Action"] =
            (IF implement_peak > wait_peak THEN "Implement" ELSE "Wait")

\* Both peaks are equal and positive, and the action is "Wait".
C8_Witness ==
  /\ RuleEvaluated /\ model.evaluation_priority = "time" /\ result.raised = "None"
  /\ result.value["Implement"] = result.value["Wait"]
  /\ result.value["Wait"] > 0
  /\ result.value["Action"] = "Wait"

\* C9: under spend priority the first category attaining the largest peak wins
\* in the order Low, Regular, High.
C9_FirstListedWins ==
  (RuleEvaluated /\ model.evaluation_priority = "spend" /\ result.raised = "None") =>
    LET low == result.value["Low"]
        regular == result.value["Regular"]
        high == result.value["High"]
        largest == SetMax({low, regular, high})
    IN result.value["Classification"] =
         (IF low = largest THEN "Low" ELSE IF regular = largest THEN "Regular" ELSE "High")

\* Regular and High share the largest peak, above Low: Regular wins.
C9_Witness ==
  /\ RuleEvaluated /\ model.evaluation_priority = "spend" /\ result.raised = "None"
  /\ result.value["Regular"] = result.value["High"]
  /\ result.value["Regular"] > result.value["Low"]
  /\ result.value["Classification"] = "Regular"

\* implement_strength of the existing-supplier rule base at the evaluated crisp
\* inputs, with the delivery time replaced by d.
ImplementStrengthAt(d) ==
  implement_strength(FALSE,
    time_rules_existing(due_time_level(args.crisp_due_time),
                        delivery_time_level(model.bank, d, 1),
                        punctuality_level(args.crisp_punctuality, Percent),
                        spend_level(model.bank, args.crisp_spend)))

\* C10: in the time-priority existing-supplier rule base, with due time,
\* punctuality and spend fixed, a smaller crisp delivery time never yields a
\* smaller implement_strength.
C10_ImplementMonotone ==
  (RuleEvaluated /\ TimeExisting) =>
    \A d \in DeliveryGrid :
      d < args.crisp_delivery_time =>
        ImplementStrengthAt(d) >= ImplementStrengthAt(args.crisp_delivery_time)

\* Scenario A: time priority, existing supplier, due time 75 days (Medium 0.5,
\* High 0.5), delivery time fully Medium, punctuality 0.9 (fully High), spend
\* fully Medium.
ScenarioA ==
  /\ RuleEvaluated /\ TimeExisting
  /\ args.crisp_due_time = 75
  /\ due_time_level(args.crisp_due_time) = Levels(0, One \div 2, One \div 2)
  /\ delivery_time_level(model.bank, args.crisp_delivery_time, 1) = Levels(0, One, 0)
  /\ args.crisp_punctuality = 90
  /\ punctuality_level(args.crisp_punctuality, Percent) = Levels(0, 0, One)
  /\ spend_level(model.bank, args.crisp_spend) = Levels(0, One, 0)

\* C11: in Scenario A the final Action is "Implement".
C11_ScenarioAImplement ==
  ScenarioA => (result.raised = "None" /\ result.value["Action"] = "Implement")

\* Scenario A was evaluated: the Implement peak lies above the Wait peak.
C11_Witness ==
  /\ ScenarioA /\ result.raised = "None"
  /\ result.value["Implement"] > result.value["Wait"]

\* C12 as stated: in Scenario A max(rule 4, rule 6) is positive and equals
\* implement_strength.
C12_Rule4Or6 ==
  (ScenarioA /\ result.raised = "None") =>
    /\ Max2(result.value[RuleKey(4)], result.value[RuleKey(6)]) > 0
    /\ Max2(result.value[RuleKey(4)], result.value[RuleKey(6)]) =
         implement_strength(FALSE, [i \in 1..18 |-> result.value[RuleKey(i)]])

\* C12 amended: in Scenario A rules 4 and 6 (due Low) do not fire; rules 8 (due
\* Medium) and 18 (due High) fire with 0.5 each, and implement_strength is
\* max(rule 8, rule 18) = 0.5.
C12_Rule8Or18 ==
  ScenarioA =>
    /\ result.raised = "None"
    /\ result.value[RuleKey(4)] = 0
    /\ result.value[RuleKey(6)] = 0
    /\ result.value[RuleKey(8)] = One \div 2
    /\ result.value[RuleKey(18)] = One \div 2
    /\ implement_strength(FALSE, [i \in 1..18 |-> result.value[RuleKey(i)]]) = One \div 2
    /\ result.value["Implement"] = One \div 2

\* Scenario A was evaluated: rules 8 and 18 carry the Implement strength.
C12_Witness ==
  /\ ScenarioA /\ result.raised = "None"
  /\ result.value["Implement"] =
       Max2(result.value[RuleKey(8)], result.value[RuleKey(18)])
  /\ result.value[RuleKey(8)] > 0

\* Scenario B: spend priority, new supplier, price fully High, delivery time
\* fully Low.
ScenarioB ==
  /\ RuleEvaluated
  /\ model.evaluation_priority = "spend" /\ model.new_supplier
  /\ spend_level(model.bank, args.crisp_price) = Levels(0, 0, One)
  /\ delivery_time_level(model.bank, args.crisp_delivery_time, 1) = Levels(One, 0, 0)

\* C13: in Scenario B rule 1 fires with strength 0, rule 4 with strength 1, and
\* the Classification is "Low".
C13_ScenarioBLow ==
  ScenarioB =>
    /\ result.raised = "None"
    /\ result.value[RuleKey(1)] = 0
    /\ result.value[RuleKey(4)] = One
    /\ result.value["Classification"] = "Low"

\* Scenario B was evaluated: Low peaks at 1, High at 0.
C13_Witness ==
  /\ ScenarioB /\ result.raised = "None"
  /\ result.value["Low"] = One
  /\ result.value["High"] = 0

\* The firing strengths of the rule base of the model at the evaluated crisp
\* inputs.
RulesAtInputs ==
  LET del == delivery_time_level(model.bank, args.crisp_delivery_time, 1)
      pun == IF model.new_supplier THEN Levels(0, 0, 0)
             ELSE punctuality_level(args.crisp_punctuality, Percent)
  IN IF model.evaluation_priority = "time" THEN
       LET due == due_time_level(args.crisp_due_time)
           sp == spend_level(model.bank, args.crisp_spend)
       IN IF model.new_supplier THEN time_rules_new(due, del, sp)
          ELSE time_rules_existing(due, del, pun, sp)
     ELSE
       LET price == spend_level(model.bank, args.crisp_price)
       IN IF model.new_supplier THEN spend_rules_new(price, del)
          ELSE spend_rules_existing(price, del, pun)

NoRuleFires == \A i \in DOMAIN RulesAtInputs : RulesAtInputs[i] = 0

\* C14: when no rule fires, so that the aggregated curve is zero everywhere,
\* the evaluation resolves the case itself (a score or a defined outcome): no
\* exception leaves the evaluation.
C14_AllZeroResolved ==
  (RuleEvaluated /\ NoRuleFires) => result.raised = "None"

\* C15: with zero awarded records the construction fails with an explicit
\* data-insufficient error raised at the delivery-time statistics step (lines
\* 51-64).
C15_DataInsufficient ==
  (Called /\ args.evaluation_priority \in {"time", "spend"}
          /\ Len(delivery_times(df)) = 0) =>
    /\ pc = "raised"
    /\ result.call = "__init__" => /\ result.raised = "DataInsufficientError"
                                   /\ result.line \in 51..64

BankOfCall ==
  variable_bank(df, args.ref_supplier, args.evaluation_priority, args.massive_simulation)

\* Every statistic of the bank is a number (at least two awarded records and
\* at least two spend entries, so that no mean, deviation or bound is NaN).
BankDefined == \A f \in DOMAIN BankOfCall : ~IsNaN(BankOfCall[f])

\* C17: for every dataset with at least two awarded records (and non-negative
\* spend), in both priority modes, every membership function of the Variable
\* Bank has non-decreasing breakpoints: no trapmf/trimf call of lines 91-112
\* is rejected.
C17_BreakpointsNonDecreasing ==
  (Called /\ args.evaluation_priority \in {"time", "spend"}
          /\ Len(delivery_times(df)) >= 2 /\ BankDefined) =>
    membership_assertion_line(BankOfCall) = 0

\* The construction under "time" reached the membership lookups of lines
\* 230-266: the rule base returned, or raised only at the defuzzification.
TimeLookedUp ==
  /\ TimePriority /\ evaluated
  /\ \/ pc = "constructed"
     \/ result.call = "__init__" /\ result.line = 352

\* The rows the crisp inputs of the call are read from (lines 224-226, 246-259).
QuotedOfCall ==
  Rows(df, [i \in DOMAIN df |-> df[i].supplier_id = args.ref_supplier
                                 /\ df[i].ecn = args.quotation_ecn])

CrispDueTimeOfCall == Max2(SopDay - SeqMax(Column(QuotedOfCall, "quotation_date")), 0)

CrispDeliveryTimeOfCall == SeqMax(Column(QuotedOfCall, "lead_time"))

CrispSpendOfCall ==
  spend_df_of(df, args.ref_supplier, args.evaluation_priority)[args.ref_supplier]

\* C18: in every evaluation each crisp input that is looked up lies within the
\* universe it is evaluated against: due time in 0..720 days, delivery time in
\* 0..max_delivery_time, spend in 0..max_spend + 1.
C18_CrispWithinUniverses ==
  TimeLookedUp =>
    /\ CrispDueTimeOfCall \in 0..DueTimeLast
    /\ CrispDeliveryTimeOfCall \in 0..DeliveryLast(BankOfCall)
    /\ CrispSpendOfCall \in 0..SpendLast(BankOfCall)

\* The three due-time memberships at grid point k add up to 1 and are not all 0.
DueTimeCovered(k) ==
  /\ due_time_low(k) + due_time_medium(k) + due_time_high(k) = One
  /\ << due_time_low(k), due_time_medium(k), due_time_high(k) >> # << 0, 0, 0 >>

\* C19: with Low [0,0,30,60], Medium [30,60,90], High [60,90,720,720] every
\* integer due time in 0..720 has no gap: the three memberships are never all
\* zero and add up to exactly 1, and so do the levels the time rule base reads
\* at its crisp due time.
C19_DueTimeNoGap ==
  (RuleEvaluated /\ result.call = "_evaluate_supplier_time_priority") =>
    /\ \A k \in 0..DueTimeLast : DueTimeCovered(k)
    /\ LET l == due_time_level(args.crisp_due_time)
       IN l.low + l.medium + l.high = One

\* The time rule base read a due time of 75 days, where Medium and High overlap.
C19_Witness ==
  /\ RuleEvaluated /\ result.call = "_evaluate_supplier_time_priority"
  /\ args.crisp_due_time = 75
  /\ due_time_level(75).medium > 0 /\ due_time_level(75).high > 0
  /\ due_time_level(75).low = 0

Positive(l) == l.low > 0 \/ l.medium > 0 \/ l.high > 0

\* Every crisp input of the evaluation lies inside its universe and has at
\* least one positive membership level.
InputsCovered ==
  /\ InsideUniverses
  /\ Positive(delivery_time_level(model.bank, args.crisp_delivery_time, 1))
  /\ ~model.new_supplier => Positive(punctuality_level(args.crisp_punctuality, Percent))
  /\ IF model.evaluation_priority = "time"
     THEN /\ Positive(due_time_level(args.crisp_due_time))
          /\ Positive(spend_level(model.bank, args.crisp_spend))
     ELSE Positive(spend_level(model.bank, args.crisp_price))

\* C22: the time-priority rule bases are complete: for in-universe crisp
\* inputs, each with a positive membership level, some rule of the 18-rule
\* existing-supplier base (of the 6-rule new-supplier base) fires, so that
\* max(wait_strength, implement_strength) > 0.
C22_TimeBasesComplete ==
  (RuleEvaluated /\ model.evaluation_priority = "time" /\ InputsCovered) =>
    Max2(wait_strength(model.new_supplier, RulesAtInputs),
         implement_strength(model.new_supplier, RulesAtInputs)) > 0

\* The support patterns of a linguistic variable: which levels are positive.
Supports == {Levels(l, m, h) : l \in {0, One}, m \in {0, One}, h \in {0, One}}
              \ {Levels(0, 0, 0)}

\* Some aggregated strength of the spend-priority base is positive.
SpendStrengthPositive(new_supplier, r) ==
  SetMax({low_strength(new_supplier, r), medium_strength(new_supplier, r),
          high_strength(new_supplier, r)}) > 0

\* C23: the spend-priority rule bases are complete: whichever levels of
\* price, delivery time and punctuality are positive (at least one each), some
\* rule of the 11-rule existing-supplier base and of the 4-rule new-supplier
\* base fires, so that max(low_strength, medium_strength, high_strength) > 0;
\* in particular at the in-universe crisp inputs of every evaluation.
C23_SpendBasesComplete ==
  (RuleEvaluated /\ model.evaluation_priority = "spend") =>
    /\ InputsCovered => SpendStrengthPositive(model.new_supplier, RulesAtInputs)
    /\ \A price \in Supports, del \in Supports :
         SpendStrengthPositive(TRUE, spend_rules_new(price, del))
    /\ \A price \in Supports, del \in Supports, pun \in Supports :
         SpendStrengthPositive(FALSE, spend_rules_existing(price, del, pun))

\* The existing-supplier spend base was evaluated at covered inputs where
\* exactly one of its 11 rules fires.
C23_Witness ==
  /\ RuleEvaluated /\ model.evaluation_priority = "spend" /\ ~model.new_supplier
  /\ InputsCovered
  /\ Cardinality({i \in DOMAIN RulesAtInputs : RulesAtInputs[i] > 0}) = 1
  /\ result.raised = "None"

\* C24: whenever an existing supplier is evaluated against a dataset that has
\* at least one awarded record, the crisp punctuality ratio is defined: the
\* division of lines 246-248 (394-395) never has a zero denominator.
C24_PunctualityDefined ==
  (Called /\ args.evaluation_priority \in {"time", "spend"} /\ ~args.new_supplier
          /\ Len(delivery_times(df)) >= 1) =>
    result.raised # "ZeroDivisionError"

\* C30: for every ECN produced by gen_ecns the release date lies within
\* release_ecn_min = -110 and release_ecn_max = 436 days of the project's
\* Design freeze, and the ECN has at least one part number.
C30_EcnWithinBounds ==
  \A k \in 1..Len(ecns) :
    /\ ecns[k].release >= release_ecn_min
    /\ ecns[k].release <= release_ecn_max
    /\ ecns[k].items >= 1

\* The members of a list, and a list without repetitions.
Members(list) == {list[k] : k \in 1..Len(list)}

NoDuplicates(list) == \A i \in 1..Len(list), j \in 1..Len(list) : list[i] = list[j] => i = j

\* C27: after any sequence of add_supplier, create_supplier,
\* activate_supplier and deactivate_supplier calls, raising ones included,
\* active_suppliers and inactive_suppliers are duplicate-free, disjoint, and
\* together hold exactly the suppliers of the environment.
C27_ListsPartition ==
  /\ NoDuplicates(active_suppliers)
  /\ NoDuplicates(inactive_suppliers)
  /\ Members(active_suppliers) \cap Members(inactive_suppliers) = {}
  /\ Members(active_suppliers) \cup Members(inactive_suppliers) = Members(suppliers)

\* A supplier of the environment that was deactivated twice: the second call
\* raised ValueError after appending it to inactive_suppliers again.
C27_DeactivatedTwice ==
  /\ outcome.call = "deactivate_supplier" /\ outcome.raised = "ValueError"
  /\ In(outcome.arg, suppliers)
  /\ ~NoDuplicates(inactive_suppliers)

\* C28: create_supplier raises when a supplier of the environment already
\* has the given name, and then constructs no Supplier, leaves
\* Supplier.instances where it was and leaves suppliers, active_suppliers and
\* inactive_suppliers unchanged; a successful create_supplier issues an id
\* that is larger than every id issued before, so ids are pairwise distinct.
NameTaken(name) == name \in {supplier[s].name : s \in Members(suppliers)}

CreateSupplierStep ==
  /\ outcome'.call = "create_supplier"
  /\ \/ outcome' # outcome
     \/ << instances, supplier, suppliers, active_suppliers, inactive_suppliers >>' #
          << instances, supplier, suppliers, active_suppliers, inactive_suppliers >>

QuotedIn(sup, qs, s, e) ==
  {k \in 1..Len(sup[s].quotations) : qs[sup[s].quotations[k]].ecn = e}

RowsIn(rows, s, e) ==
  {i \in DOMAIN rows : rows[i].ecn = e /\ rows[i].supplier_id = s}

QuotedBy(s, e) == QuotedIn(supplier, quotations, s, e)

RowsOf(s, e) == RowsIn(item_master, s, e)

\* C21: quote_ecn_some_suppliers sends the RFQ to all suppliers of the given
\* list: after the call every supplier of the list that is active and had
\* not yet quoted the ECN holds exactly one quotation of it, and the rows of
\* that quotation, one per part number, are in the item master.
C21_SomeSuppliersQuote ==
  [][outcome'.call = "quote_ecn_some_suppliers" =>
       LET e == outcome'.arg[1]
           list == outcome'.arg[2]
       IN \A k \in 1..Len(list) :
            (In(list[k], active_suppliers) /\ QuotedBy(list[k], e) = {}) =>
              /\ Cardinality(QuotedIn(supplier', quotations', list[k], e)) = 1
              /\ Cardinality(RowsIn(item_master', list[k], e)) = ecns[e].items]_vars

\* The place of a status in Under review -> Engineering release -> Released
\* for production.
StatusRank(status) ==
  CASE status = "Under review" -> 0
    [] status = "Engineering release" -> 1
    [] status = "Released for production" -> 2

\* C29: the status of an ECN only moves forward along Under review ->
\* Engineering release -> Released for production; no quote_ecn_all_suppliers
\* or quote_ecn_some_suppliers call takes a released-for-production ECN back
\* to "Engineering release", and only reset takes an ECN back, to "Under
\* review".
C29_StatusForward ==
  [][\A e \in 1..Len(ecns) :
       StatusRank(ecns'[e].status) < StatusRank(ecns[e].status) =>
         /\ outcome'.call = "reset" /\ outcome'.arg = e
         /\ ecns'[e].status = "Under review"]_vars

\* The active suppliers that hold no quotation of the ECN.
NotYetQuoted(e) == {s \in Members(active_suppliers) : QuotedBy(s, e) = {}}

\* C26: a supplier holds at most one quotation per ECN.  A repeated
\* Supplier.quote of an ECN the supplier has quoted creates no Quotation,
\* appends nothing to the supplier's or the ECN's quotation list and adds no
\* rows to the item master; quote_ecn_all_suppliers creates quotations and
\* rows only for the active suppliers that had not quoted.
C26_QuoteOnce ==
  [][/\ \A s \in DOMAIN supplier', e \in 1..Len(ecns') :
          Cardinality(QuotedIn(supplier', quotations', s, e)) <= 1
     /\ (outcome'.call = "quote" /\ QuotedBy(outcome'.arg[1], outcome'.arg[2]) # {}) =>
          UNCHANGED << quotations, supplier, ecns, item_master >>
     /\ outcome'.call = "quote_ecn_all_suppliers" =>
          LET e == outcome'.arg[1]
          IN /\ \A s \in DOMAIN supplier :
                  QuotedBy(s, e) # {} =>
                    /\ supplier'[s] = supplier[s]
                    /\ RowsIn(item_master', s, e) = RowsOf(s, e)
             /\ Len(quotations') = Len(quotations) + Cardinality(NotYetQuoted(e))
             /\ Len(ecns'[e].quotations) =
                  Len(ecns[e].quotations) + Cardinality(NotYetQuoted(e))
             /\ Len(item_master') =
                  Len(item_master) + Cardinality(NotYetQuoted(e)) * ecns[e].items]_vars

\* Supplier.quote returned for an ECN the supplier had quoted before: its
\* quotation of the ECN is there and the newest Quotation is another one.
C26_Witness ==
  /\ outcome.call = "quote" /\ outcome.raised = "None"
  /\ QuotedBy(outcome.arg[1], outcome.arg[2]) # {}
  /\ Len(quotations) >= 3
  /\ quotations[Len(quotations)] #
       [ecn |-> outcome.arg[2], supplier |-> outcome.arg[1], awarded |-> FALSE]
  /\ quotations[Len(quotations)].supplier = outcome.arg[1]

\* The awarded quotations of an ECN held by suppliers of the environment.
AwardedIn(qs, e) ==
  {q \in 1..Len(qs) : qs[q].ecn = e /\ qs[q].awarded /\ qs[q].supplier \in Members(suppliers)}

\* C25: with overwrite = False throughout, every ECN has at most one awarded
\* quotation across the suppliers of the environment.  implement_ecn on an
\* ECN that is already awarded, to the same or to another supplier, raises,
\* and so does implement_ecn for a supplier that has not quoted the ECN; a
\* raising call leaves the awarded flags, the item master, awarded_ecns and
\* the ECN status unchanged.  Any other implement_ecn awards the supplier's
\* quotation of the ECN.
C25_OneAwardPerEcn ==
  [][/\ \A e \in 1..Len(ecns') : Cardinality(AwardedIn(quotations', e)) <= 1
     /\ outcome'.call = "implement_ecn" =>
          LET e == outcome'.arg[1]
              s == outcome'.arg[2]
          IN /\ ~outcome'.arg[3]
             /\ (AwardedIn(quotations, e) # {} \/ QuotedBy(s, e) = {}) =>
                  outcome'.raised = "Exception"
             /\ outcome'.raised # "None" =>
                  UNCHANGED << quotations, item_master, supplier, ecns >>
             /\ outcome'.raised = "None" =>
                  /\ AwardedIn(quotations, e) = {}
                  /\ \E q \in AwardedIn(quotations', e) : quotations'[q].supplier = s
                  /\ ecns'[e].status = "Released for production"
                  /\ supplier'[s].awarded_ecns = Append(supplier[s].awarded_ecns, e)]_vars

\* implement_ecn was refused for an ECN awarded to another supplier, in an
\* environment where each of the two ECNs is awarded to a different supplier.
C25_Witness ==
  /\ outcome.call = "implement_ecn" /\ outcome.raised = "Exception" /\ outcome.line = 941
  /\ Cardinality(AwardedIn(quotations, 1)) = 1
  /\ Cardinality(AwardedIn(quotations, 2)) = 1
  /\ \E a \in AwardedIn(quotations, 1), b \in AwardedIn(quotations, 2) :
       quotations[a].supplier # quotations[b].supplier
  /\ QuotedBy(outcome.arg[2], outcome.arg[1]) # {}

====
